---- MODULE Spec2Model ----
(***************************************************************************)
(* Model of monitor.py: a polling change detector for three web pages.     *)
(*                                                                         *)
(* Text is modelled at word granularity.  A page body and a normalized     *)
(* text are sequences of tokens separated by single spaces; a token        *)
(* [w, n] is the first n characters of the word w repeated, so that an     *)
(* ordinary word is [w, Len(w)], a word cut by a slice is [w, k] with      *)
(* k < Len(w), and a long run of one character is ["x", 49999].  Markup    *)
(* tags and the punctuation marks . ! ? are tokens of their own.           *)
(***************************************************************************)
EXTENDS Integers, Sequences, FiniteSets, TLC

(***************************************************************************)
(* Bounds of the model.                                                    *)
(***************************************************************************)
\* longest run of consecutive failing cycles of one page that is explored
MaxFailures == 2

\* number of failing writes of a state file that is explored
MaxWriteFaults == 1

(***************************************************************************)
(* Configuration: PAGES, monitor.py 17-36.                                 *)
(***************************************************************************)
FilterList == {"2025", "2026", "season", "closed", "open", "december",
               "january", "application", "update"}

PAGES ==
  [name \in {"IEC Programs", "Internship Network", "Jenza"} |->
     CASE name = "IEC Programs" ->
            [state_file |-> "state_iec.txt",
             urgent_keyword |-> <<"register", "now">>,
             filter_keywords |-> FilterList]
       [] name = "Internship Network" ->
            [state_file |-> "state_internship.txt",
             urgent_keyword |-> <<"register", "now">>,
             filter_keywords |-> FilterList]
       [] name = "Jenza" ->
            [state_file |-> "state_jenza.txt",
             urgent_keyword |-> <<"apply", "now">>,
             filter_keywords |-> {}]]

\* iteration order of PAGES.items(): insertion order of the dict literal
Order == <<"IEC Programs", "Internship Network", "Jenza">>

Names == DOMAIN PAGES

(***************************************************************************)
(* Tokens and strings.                                                     *)
(***************************************************************************)
W(s) == [w |-> s, n |-> Len(s)]

Run(s, k) == [w |-> s, n |-> k]

Html(words) == [i \in 1..Len(words) |-> W(words[i])]

\* str.lower() on the words of the model's vocabulary
LowerWord(s) ==
  CASE s = "Status" -> "status"
    [] s = "Closed" -> "closed"
    [] s = "Open" -> "open"
    [] s = "Register" -> "register"
    [] s = "Apply" -> "apply"
    [] s = "Now" -> "now"
    [] s = "Season" -> "season"
    [] s = "Welcome" -> "welcome"
    [] OTHER -> s

Lower(tok) == [tok EXCEPT !.w = LowerWord(tok.w)]

\* kw in word.lower(), for a whole (uncut) word of the vocabulary
KeywordsIn(tok) ==
  IF tok.n # Len(tok.w) THEN {}
  ELSE {LowerWord(tok.w)} \cap FilterList

IsTag(tok) == tok.w \in {"<p>", "</p>", "<div>", "</div>", "<b>", "</b>",
                         "<script>", "</script>", "<style>", "</style>"}

IsStop(tok) == tok.w \in {".", "!", "?"}

(***************************************************************************)
(* extract_stable_content, monitor.py 50-65.                               *)
(***************************************************************************)
\* index of the first occurrence of the tag at or after position i, else 0
RECURSIVE FindTag(_, _, _)
FindTag(html, tag, i) ==
  IF i > Len(html) THEN 0
  ELSE IF html[i].w = tag THEN i
  ELSE FindTag(html, tag, i + 1)

\* re.sub(r'<open[^>]*>.*?</open>', '', html, flags=re.DOTALL)
RECURSIVE StripBlocks(_, _, _)
StripBlocks(html, open, close) ==
  LET i == FindTag(html, open, 1)
      j == IF i = 0 THEN 0 ELSE FindTag(html, close, i + 1)
  IN  IF j = 0 THEN html
      ELSE SubSeq(html, 1, i - 1)
             \o StripBlocks(SubSeq(html, j + 1, Len(html)), open, close)

\* re.sub(r'<[^>]+>', ' ', text); re.sub(r'\s+', ' ', text).strip()
StripTags(html) == SelectSeq(html, LAMBDA tok : ~IsTag(tok))

\* re.split(r'[.!?]', text): the segments between the punctuation marks
RECURSIVE SplitSentences(_, _)
SplitSentences(text, cur) ==
  IF text = <<>> THEN <<cur>>
  ELSE IF IsStop(Head(text)) THEN <<cur>> \o SplitSentences(Tail(text), <<>>)
  ELSE SplitSentences(Tail(text), Append(cur, Head(text)))

IsRelevant(sentence, filter_keywords) ==
  \E i \in 1..Len(sentence) : KeywordsIn(sentence[i]) \cap filter_keywords # {}

\* " | ".join(relevant)
RECURSIVE JoinBar(_)
JoinBar(sentences) ==
  IF sentences = <<>> THEN <<>>
  ELSE IF Len(sentences) = 1 THEN Head(sentences)
  ELSE Head(sentences) \o <<W("|")>> \o JoinBar(Tail(sentences))

extract_stable_content(html, filter_keywords) ==
  LET text == StripTags(StripBlocks(StripBlocks(html, "<script>", "</script>"),
                                    "<style>", "</style>"))
  IN  IF filter_keywords # {}
      THEN JoinBar(SelectSeq(SplitSentences(text, <<>>),
                             LAMBDA s : IsRelevant(s, filter_keywords)))
      ELSE text

(***************************************************************************)
(* get_content_hash, monitor.py 68-69.  hashlib.md5(...).hexdigest() is a  *)
(* string of 32 hexadecimal digits; the digest function is modelled by     *)
(* eight 16-bit polynomial hashes of the text, four digits each.           *)
(***************************************************************************)
Vocabulary == <<"Status", "Closed", "Open", "Register", "Now", "Apply",
                "Season", "Welcome", "2026", ".", "!", "?", "|", "x">>

\* the position of a word in Vocabulary, 0 for any other word
RECURSIVE IndexFrom(_, _)
IndexFrom(s, i) ==
  IF i > Len(Vocabulary) THEN 0
  ELSE IF Vocabulary[i] = s THEN i
  ELSE IndexFrom(s, i + 1)

WordCode(s) == IndexFrom(s, 1)

RECURSIVE Absorb(_, _)
Absorb(h, text) ==
  IF text = <<>> THEN h
  ELSE Absorb((h * 31 + WordCode(Head(text).w) * 7 + Head(text).n) % 65536,
              Tail(text))

HexDigits(v) == << (v \div 4096) % 16, (v \div 256) % 16, (v \div 16) % 16, v % 16 >>

RECURSIVE DigestFrom(_, _)
DigestFrom(text, k) ==
  IF k > 8 THEN <<>>
  ELSE HexDigits(Absorb(k * 4099, text)) \o DigestFrom(text, k + 1)

get_content_hash(text) == DigestFrom(text, 1)

(***************************************************************************)
(* find_differences, monitor.py 72-84.  list(set)[:10] takes ten elements  *)
(* in the set's iteration order, which is arbitrary: the operator gives    *)
(* the set of summaries a call can return.                                 *)
(***************************************************************************)
SampleSize == 10

WordSet(text) == {Lower(text[i]) : i \in 1..Len(text)}

\* list(s) without the [:10]
Samples_all(s) == {s}

\* the possible values of list(s)[:10], as sets of words
Samples(s) ==
  IF Cardinality(s) <= SampleSize THEN {s}
  ELSE {c \in SUBSET s : Cardinality(c) = SampleSize}

find_differences(old_text, new_text) ==
  LET old_words == WordSet(old_text)
      new_words == WordSet(new_text)
      added == new_words \ old_words
      removed == old_words \ new_words
  IN  IF added = {} /\ removed = {}
      THEN {[structure |-> TRUE, added |-> {}, removed |-> {}]}
      ELSE {[structure |-> FALSE, added |-> a, removed |-> r] :
              a \in Samples(added), r \in Samples(removed)}

(***************************************************************************)
(* send_notification, monitor.py 87-109.  env is what the call meets:      *)
(* "no_credentials", "ok", "http_error" or "timeout".  The result tells    *)
(* whether a request was posted, whether it was accepted, and whether the  *)
(* call raised to its caller.                                              *)
(***************************************************************************)
NotifierOutcomes == {"ok", "http_error", "timeout", "no_credentials"}

\* send_notification without its try/except: a failed post raises
send_notification_unguarded(env) ==
  IF env = "no_credentials"
  THEN [posted |-> FALSE, delivered |-> FALSE, raised |-> FALSE]
  ELSE [posted |-> TRUE, delivered |-> env = "ok", raised |-> env # "ok"]

send_notification(env) ==
  IF env = "no_credentials"
  THEN [posted |-> FALSE, delivered |-> FALSE, raised |-> FALSE]
  ELSE [posted |-> TRUE, delivered |-> env = "ok", raised |-> FALSE]

(***************************************************************************)
(* The state file.  A file is missing, blank, not JSON ("garbage"), or     *)
(* holds a JSON value: null, a number, a list, a string or an object,      *)
(* whose items are a record.                                               *)
(***************************************************************************)
Missing == [kind |-> "missing"]

Blank == [kind |-> "blank"]

Garbage == [kind |-> "garbage"]

Json(v) == [kind |-> "json", data |-> v]

None == [type |-> "None"]

Dict(items) == [type |-> "dict", items |-> items]

\* a bare string taken for no record at all
Legacy_absent(s) == None

\* monitor.py 120-121: a file holding a bare JSON string is the fingerprint
\* of a record without text
Legacy(s) == Dict([hash |-> s, text |-> <<>>])

\* load_previous_state answering a missing file with an empty record
load_previous_state_default(file) ==
  IF file.kind \in {"missing", "blank", "garbage"}
  THEN Dict([hash |-> <<>>, text |-> <<>>])
  ELSE IF file.data.type = "str"
       THEN Dict([hash |-> file.data.s, text |-> <<>>])
       ELSE IF file.data.type = "null" THEN None ELSE file.data

\* load_previous_state, monitor.py 112-125
load_previous_state(file) ==
  IF file.kind = "missing" THEN None
  ELSE IF file.kind = "blank" THEN None
  ELSE IF file.kind = "garbage" THEN None
  ELSE IF file.data.type = "str"
       THEN Legacy(file.data.s)
       ELSE IF file.data.type = "null" THEN None ELSE file.data

\* bool(previous)
Truthy(v) ==
  CASE v.type = "None" -> FALSE
    [] v.type = "num" -> v.v # 0
    [] v.type = "list" -> v.len # 0
    [] v.type = "dict" -> DOMAIN v.items # {}
    [] OTHER -> TRUE

\* previous["hash"] raises TypeError or KeyError
HashLookupRaises(v) ==
  IF v.type = "dict" THEN "hash" \notin DOMAIN v.items ELSE TRUE

\* previous.get with a key the record never has
GetText_wrong_key(v) == <<>>

\* previous.get("text", "")
GetText(v) == IF "text" \in DOMAIN v.items THEN v.items.text ELSE <<>>

\* a slice that keeps the whole text
Slice_whole(text, limit) == text

\* text[:limit] of the words joined by single spaces
RECURSIVE Slice(_, _)
Slice(text, limit) ==
  IF text = <<>> \/ limit <= 0 THEN <<>>
  ELSE IF Head(text).n >= limit THEN << [Head(text) EXCEPT !.n = limit] >>
  ELSE <<Head(text)>> \o Slice(Tail(text), limit - Head(text).n - 1)

MaxStoredText == 50000

WriteOutcomes == {"ok", "denied", "partial"}

\* save_state writing the record without the fingerprint it was given
save_state_no_hash(file, content_hash, text, io) ==
  CASE io = "ok" ->
         [file |-> Json(Dict([hash |-> <<>>,
                              text |-> Slice(text, MaxStoredText)])),
          raised |-> FALSE]
    [] io = "denied" -> [file |-> file, raised |-> TRUE]
    [] io = "partial" -> [file |-> Garbage, raised |-> TRUE]

\* save_state, monitor.py 128-131: the file after the call and whether
\* Path.write_text raised.  "denied": open() fails and the file is kept;
\* "partial": the file was truncated by open() and the write broke off.
save_state(file, content_hash, text, io) ==
  CASE io = "ok" ->
         [file |-> Json(Dict([hash |-> content_hash,
                              text |-> Slice(text, MaxStoredText)])),
          raised |-> FALSE]
    [] io = "denied" -> [file |-> file, raised |-> TRUE]
    [] io = "partial" -> [file |-> Garbage, raised |-> TRUE]

(***************************************************************************)
(* Page bodies the three sites can serve.                                  *)
(***************************************************************************)
PageClosed == Html(<<"<p>", "Status", "Closed", "</p>">>)

\* the same visible text inside one more tag
PageClosedWrapped == Html(<<"<div>", "<p>", "Status", "Closed", "</p>", "</div>">>)

\* the same words in another order
PageClosedReordered == Html(<<"<p>", "Closed", "Status", "</p>">>)

PageOpen == Html(<<"<p>", "Status", "<b>", "Open", "</b>", "</p>">>)

PageRegister == Html(<<"<p>", "Register", "Now", "!", "Season", "2026", "</p>">>)

PageApply == Html(<<"<p>", "Apply", "Now", "!", "Season", "2026", "</p>">>)

\* no sentence with a filter keyword; a script block
PageWelcome == Html(<<"<script>", "Open", "</script>", "<p>", "Welcome", ".", "</p>">>)

\* more than 50,000 characters of text
PageLong == Html(<<"<p>", "Open">>) \o <<Run("x", 49999)>>

FetchError == [ok |-> FALSE, html |-> <<>>]

Body(html) == [ok |-> TRUE, html |-> html]

\* what fetch_page (monitor.py 43-47) can return for a page, or raise
Served(name) ==
  CASE name = "IEC Programs" ->
         {PageClosed, PageClosedWrapped, PageOpen}
    [] name = "Internship Network" ->
         {PageClosed, PageRegister, PageLong}
    [] name = "Jenza" ->
         {PageWelcome, PageApply, PageRegister}

fetch_page(name) == {FetchError} \cup {Body(h) : h \in Served(name)}

\* extract_stable_content and get_content_hash of every body a page can
\* serve, under that page's filter_keywords, computed once
Normalized ==
  [name \in Names |->
     [html \in Served(name) |->
        extract_stable_content(html, PAGES[name].filter_keywords)]]

Hashed ==
  [name \in Names |->
     [html \in Served(name) |-> get_content_hash(Normalized[name][html])]]

(***************************************************************************)
(* check_page, monitor.py 134-186.                                         *)
(***************************************************************************)
NoDiff == [structure |-> FALSE, added |-> {}, removed |-> {}]

\* one call of send_notification: what was asked and what became of it
Note(kind, priority, diff, env) ==
  [kind |-> kind, priority |-> priority, diff |-> diff,
   posted |-> send_notification(env).posted,
   delivered |-> send_notification(env).delivered]

\* urgent_keyword in html.lower(): the keyword's words, one space apart
Contains(html, keyword) ==
  \E i \in 1..(Len(html) - Len(keyword) + 1) :
     \A j \in 1..Len(keyword) : Lower(html[i + j - 1]) = W(keyword[j])

\* the except clause, monitor.py 184-186; an exception of the handler's own
\* send_notification leaves check_page
Handler(notes, file, error, env) ==
  [result |-> "Failed", error |-> error, file |-> file,
   notes |-> Append(notes, Note("problem", 1, NoDiff, env)),
   escaped |-> send_notification(env).raised]

Done(result, notes, file) ==
  [result |-> result, error |-> "none", file |-> file, notes |-> notes,
   escaped |-> FALSE]

\* the outcomes of one call: env1 is what the branch's notification meets,
\* env2 what the handler's notification meets, io what the write meets
check_page(name, file, fetch, env1, env2, io) ==
  LET config == PAGES[name]
      html == fetch.html
      \* extract_stable_content(html, filter_keywords), get_content_hash(text)
      text == IF fetch.ok THEN Normalized[name][html] ELSE <<>>
      current_hash == IF fetch.ok THEN Hashed[name][html] ELSE <<>>
      previous == load_previous_state(file)
      saved == save_state(file, current_hash, text, io)
      raised1 == send_notification(env1).raised
  IN  IF ~fetch.ok THEN {Handler(<<>>, file, "fetch", env2)}
      ELSE IF Truthy(previous) /\ HashLookupRaises(previous)
      THEN {Handler(<<>>, file, "state", env2)}
      ELSE IF config.urgent_keyword # <<>> /\ Contains(html, config.urgent_keyword)
      THEN LET note == Note("urgent", 2, NoDiff, env1)
           IN  IF raised1 THEN {Handler(<<note>>, file, "notify", env2)}
               ELSE IF saved.raised
               THEN {Handler(<<note>>, saved.file, "write", env2)}
               ELSE {Done("UrgentMatch", <<note>>, saved.file)}
      ELSE IF previous.type = "None"
      THEN LET note == Note("started", 0, NoDiff, env1)
           IN  IF saved.raised THEN {Handler(<<>>, saved.file, "write", env2)}
               ELSE IF raised1 THEN {Handler(<<note>>, saved.file, "notify", env2)}
               ELSE {Done("Bootstrapped", <<note>>, saved.file)}
      ELSE IF HashLookupRaises(previous)
      THEN {Handler(<<>>, file, "state", env2)}
      ELSE IF current_hash # previous.items.hash
      THEN {LET note == Note("changed", 1, diff, env1)
            IN  IF raised1 THEN Handler(<<note>>, file, "notify", env2)
                ELSE IF saved.raised
                THEN Handler(<<note>>, saved.file, "write", env2)
                ELSE Done("Changed", <<note>>, saved.file) :
            diff \in find_differences(GetText(previous), text)}
      ELSE {Done("Unchanged", <<>>, file)}

(***************************************************************************)
(* State.                                                                  *)
(*   files     the content of each page's state file                       *)
(*   mode      "idle" between invocations, else CHECK_TYPE of the running  *)
(*             invocation                                                  *)
(*   idx       position of the running loop in Order                       *)
(*   checked   the pages the running invocation has evaluated, in order    *)
(*   cycle     the last step: page, fetched body, result, notifications,   *)
(*             and whether the body is the one the page's previous cycle   *)
(*             fetched and completed with                                  *)
(*   last      per page, the fetch of its last check cycle and whether the *)
(*             cycle ended in the except clause ("Failed") or not ("done") *)
(*   streak    per page, the number of check cycles in a row whose fetch   *)
(*             failed                                                      *)
(*   failNotes per page, the "problem" notifications sent in that run      *)
(*   statuses  the status lines of the running heartbeat                   *)
(*   faults    the number of writes of a state file that have failed       *)
(*   call      the arguments and the result of a call of find_differences  *)
(*             made on its own, outside a check cycle                      *)
(***************************************************************************)
VARIABLES files, mode, idx, checked, cycle, last, streak, failNotes, statuses,
          faults, call

vars ==
  <<files, mode, idx, checked, cycle, last, streak, failNotes, statuses, faults,
    call>>

NoCycle ==
  [name |-> "none", fetch |-> FetchError, result |-> "none", error |-> "none",
   notes |-> <<>>, again |-> FALSE]

NoCall == [old_text |-> <<>>, new_text |-> <<>>, done |-> FALSE, diff |-> NoDiff]

\* records a state file can hold when an invocation starts
LegacyHash == get_content_hash(extract_stable_content(PageClosed, FilterList))

StoredRecords ==
  {Missing, Garbage,
   Json([type |-> "str", s |-> LegacyHash]),
   Json([type |-> "list", len |-> 1]),
   Json([type |-> "num", v |-> 0]),
   Json(Dict([text |-> <<W("Status")>>]))}

InitWith(records) ==
  /\ files \in [Names -> records]
  /\ mode = "idle"
  /\ idx = 1
  /\ checked = <<>>
  /\ cycle = NoCycle
  /\ last = [n \in Names |-> [fetch |-> FetchError, result |-> "none"]]
  /\ streak = [n \in Names |-> 0]
  /\ failNotes = [n \in Names |-> 0]
  /\ statuses = <<>>
  /\ faults = 0
  /\ call = NoCall

\* no state file exists when the first invocation starts
Init == InitWith({Missing})

\* __main__, monitor.py 215-219: CHECK_TYPE selects the entry point
Start ==
  /\ mode = "idle"
  /\ \E m \in {"change", "heartbeat"} : mode' = m
  /\ idx' = 1
  /\ checked' = <<>>
  /\ statuses' = <<>>
  /\ cycle' = NoCycle
  /\ UNCHANGED <<files, last, streak, failNotes, faults, call>>

Count(notes, kind) == Cardinality({i \in 1..Len(notes) : notes[i].kind = kind})

\* a loop that a failed page ends
LoopNext_abort(i, out) ==
  IF out.result = "Failed" THEN Len(Order) + 1 ELSE i + 1

\* the loop of check_for_changes, monitor.py 191-196: whatever check_page
\* did, and also when an exception leaves it, the loop goes on to the next page
LoopNext(i, out) == i + 1

\* one iteration of check_for_changes: check_page for the page at idx
CheckPage(ios) ==
  /\ mode = "change"
  /\ idx <= Len(Order)
  /\ LET name == Order[idx]
     IN  \E fetch \in fetch_page(name), env1, env2 \in NotifierOutcomes, io \in ios :
           /\ ~fetch.ok => streak[name] < MaxFailures
           /\ io # "ok" => faults < MaxWriteFaults
           /\ \E out \in check_page(name, files[name], fetch, env1, env2, io) :
                /\ files' = [files EXCEPT ![name] = out.file]
                /\ cycle' = [name |-> name, fetch |-> fetch,
                             result |-> out.result, error |-> out.error,
                             notes |-> out.notes,
                             again |-> fetch.ok /\ last[name].result = "done"
                                         /\ last[name].fetch = fetch]
                /\ last' = [last EXCEPT ![name] =
                              [fetch |-> fetch,
                               result |-> IF out.result = "Failed"
                                          THEN "Failed" ELSE "done"]]
                /\ streak' = [streak EXCEPT ![name] =
                                IF fetch.ok THEN 0 ELSE @ + 1]
                /\ failNotes' = [failNotes EXCEPT ![name] =
                                   IF fetch.ok THEN 0
                                   ELSE @ + Count(out.notes, "problem")]
                /\ checked' = Append(checked, name)
                /\ idx' = LoopNext(idx, out)
                /\ faults' = IF out.error = "write" THEN faults + 1 ELSE faults
  /\ UNCHANGED <<mode, statuses, call>>

\* check_for_changes returns and the process ends
Exit ==
  /\ mode = "change"
  /\ idx > Len(Order)
  /\ mode' = "idle"
  /\ cycle' = NoCycle
  /\ UNCHANGED <<files, idx, checked, last, streak, failNotes, statuses, faults,
               call>>

\* an iteration of the heartbeat that reports a page it could not fetch as OK
heartbeat_page_defaults(fetch, env) ==
  IF ~fetch.ok THEN [status |-> "OK", notes |-> <<>>]
  ELSE IF Contains(fetch.html, <<"register", "now">>)
            \/ Contains(fetch.html, <<"apply", "now">>)
  THEN [status |-> IF send_notification(env).raised THEN "Erreur" ELSE "OUVERT?",
        notes |-> <<Note("urgent", 2, NoDiff, env)>>]
  ELSE [status |-> "OK", notes |-> <<>>]

\* one iteration of send_heartbeat, monitor.py 202-211
heartbeat_page(fetch, env) ==
  IF ~fetch.ok THEN [status |-> "Erreur", notes |-> <<>>]
  ELSE IF Contains(fetch.html, <<"register", "now">>)
            \/ Contains(fetch.html, <<"apply", "now">>)
  THEN [status |-> IF send_notification(env).raised THEN "Erreur" ELSE "OUVERT?",
        notes |-> <<Note("urgent", 2, NoDiff, env)>>]
  ELSE [status |-> "OK", notes |-> <<>>]

\* an iteration of the heartbeat that saves the state of the fetched page
HeartbeatPage_saving ==
  /\ mode = "heartbeat"
  /\ idx <= Len(Order)
  /\ LET name == Order[idx]
     IN  \E fetch \in fetch_page(name), env \in NotifierOutcomes :
           LET out == heartbeat_page(fetch, env)
           IN  /\ statuses' = Append(statuses, out.status)
               /\ cycle' = [name |-> name, fetch |-> fetch,
                            result |-> out.status, error |-> "none",
                            notes |-> out.notes, again |-> FALSE]
               /\ checked' = Append(checked, name)
               /\ idx' = idx + 1
               /\ files' = IF fetch.ok
                           THEN [files EXCEPT ![name] =
                                   save_state(@, Hashed[name][fetch.html],
                                              Normalized[name][fetch.html],
                                              "ok").file]
                           ELSE files
  /\ UNCHANGED <<mode, last, streak, failNotes, faults, call>>

HeartbeatPage ==
  /\ mode = "heartbeat"
  /\ idx <= Len(Order)
  /\ LET name == Order[idx]
     IN  \E fetch \in fetch_page(name), env \in NotifierOutcomes :
           LET out == heartbeat_page(fetch, env)
           IN  /\ statuses' = Append(statuses, out.status)
               /\ cycle' = [name |-> name, fetch |-> fetch,
                            result |-> out.status, error |-> "none",
                            notes |-> out.notes, again |-> FALSE]
               /\ checked' = Append(checked, name)
               /\ idx' = idx + 1
  /\ UNCHANGED <<files, mode, last, streak, failNotes, faults, call>>

\* the summary of send_heartbeat, monitor.py 212, and the end of the process
HeartbeatSummary ==
  /\ mode = "heartbeat"
  /\ idx > Len(Order)
  /\ \E env \in NotifierOutcomes :
       cycle' = [name |-> "heartbeat", fetch |-> FetchError,
                 result |-> "summary", error |-> "none",
                 notes |-> <<Note("summary", -1, NoDiff, env)>>,
                 again |-> FALSE]
  /\ mode' = "idle"
  /\ UNCHANGED <<files, idx, checked, last, streak, failNotes, statuses, faults,
               call>>

\* the file system accepts every write
Next ==
  \/ Start
  \/ CheckPage({"ok"})
  \/ Exit
  \/ HeartbeatPage
  \/ HeartbeatSummary

Spec == Init /\ [][Next]_vars

\* the state file of the second page holds a record written before the
\* first invocation
InitStore ==
  /\ InitWith(StoredRecords)
  /\ \A n \in Names : n # Order[2] => files[n] = Missing

SpecStore == InitStore /\ [][Next]_vars

\* writes of the state file can fail
NextFaulty ==
  \/ Start
  \/ CheckPage(WriteOutcomes)
  \/ Exit
  \/ HeartbeatPage
  \/ HeartbeatSummary

SpecFaulty == Init /\ [][NextFaulty]_vars

\* a started heartbeat keeps running: its loop goes over the three pages,
\* every fetch returns or raises within its timeout (monitor.py 45), and
\* the summary follows the loop
SpecHeartbeatFair ==
  Spec /\ WF_vars(HeartbeatPage) /\ WF_vars(HeartbeatSummary)

(***************************************************************************)
(* find_differences on its own: the two texts are drawn from DiffTexts and *)
(* the call is made once.                                                  *)
(***************************************************************************)
MaxWords == 12

DiffVocabulary ==
  <<"Status", "Closed", "Open", "Season", "2026", "Welcome", "Apply", "Now",
    "Register", "!", "|", "2025", "update", "january", "december",
    "application">>

\* str.lower() of a text
LowerText(text) == [i \in 1..Len(text) |-> Lower(text[i])]

Reversed(text) == [i \in 1..Len(text) |-> text[Len(text) + 1 - i]]

\* texts of up to MaxWords words: the first words of the vocabulary, runs of
\* words from the third on, and a text in lower case, in reverse order and
\* with its words repeated
DiffTexts ==
  LET V == Html(DiffVocabulary)
  IN  {SubSeq(V, 1, k) : k \in 0..MaxWords}
        \cup {SubSeq(V, 3, 2 + k) : k \in 1..MaxWords}
        \cup {LowerText(SubSeq(V, 1, 3)), Reversed(SubSeq(V, 1, 3)),
              SubSeq(V, 1, 2) \o SubSeq(V, 1, 2)}

InitDiff ==
  /\ files = [n \in Names |-> Missing]
  /\ mode = "idle"
  /\ idx = 1
  /\ checked = <<>>
  /\ cycle = NoCycle
  /\ last = [n \in Names |-> [fetch |-> FetchError, result |-> "none"]]
  /\ streak = [n \in Names |-> 0]
  /\ failNotes = [n \in Names |-> 0]
  /\ statuses = <<>>
  /\ faults = 0
  /\ call \in {[old_text |-> o, new_text |-> n, done |-> FALSE, diff |-> NoDiff] :
                 o \in DiffTexts, n \in DiffTexts}

\* the call find_differences(old_text, new_text) and one of its results
FindDifferences ==
  /\ ~call.done
  /\ \E d \in find_differences(call.old_text, call.new_text) :
       call' = [call EXCEPT !.done = TRUE, !.diff = d]
  /\ UNCHANGED <<files, mode, idx, checked, cycle, last, streak, failNotes,
                 statuses, faults>>

NextDiff == FindDifferences

SpecDiff == InitDiff /\ [][NextDiff]_vars

TypeOK ==
  /\ mode \in {"idle", "change", "heartbeat"}
  /\ idx \in 1..(Len(Order) + 1)
  /\ \A n \in Names : streak[n] \in 0..MaxFailures

(***************************************************************************)
(* Vocabulary of the properties.                                           *)
(***************************************************************************)
\* the step is the check cycle of page n in change mode
ChangeStep(n) == mode = "change" /\ checked' = Append(checked, n)

\* the file holds a record with a fingerprint and a text
IsSnapshot(file) ==
  /\ file.kind = "json"
  /\ file.data.type = "dict"
  /\ {"hash", "text"} \subseteq DOMAIN file.data.items

\* the file holds a record whose error flag is set
ErrorFlagSet(file) ==
  /\ file.kind = "json"
  /\ file.data.type = "dict"
  /\ "error" \in DOMAIN file.data.items
  /\ file.data.items.error = TRUE

\* number of characters of a text
RECURSIVE TextLen(_)
TextLen(text) ==
  IF text = <<>> THEN 0
  ELSE IF Len(text) = 1 THEN Head(text).n
  ELSE Head(text).n + 1 + TextLen(Tail(text))

\* p is what the store keeps of text: all of it up to 50,000 characters,
\* else its first 50,000 characters
IsStoredFormOf(p, text) ==
  /\ Len(p) <= Len(text)
  /\ \A i \in 1..Len(p) :
       /\ p[i].w = text[i].w
       /\ IF i < Len(p) THEN p[i].n = text[i].n ELSE p[i].n <= text[i].n
  /\ TextLen(p) = IF TextLen(text) <= 50000 THEN TextLen(text) ELSE 50000

\* the file holds the snapshot of the body: its fingerprint and stored text
HoldsSnapshotOf(file, name, html) ==
  /\ IsSnapshot(file)
  /\ file.data.items.hash = Hashed[name][html]
  /\ IsStoredFormOf(file.data.items.text, Normalized[name][html])

HasUrgentPhrase(name, fetch) ==
  fetch.ok /\ Contains(fetch.html, PAGES[name].urgent_keyword)

(***************************************************************************)
(* Failure handling.                                                       *)
(***************************************************************************)
\* C1: in a run of consecutive check cycles of one page whose fetches all
\* fail, exactly one "problem" notification is sent, on the first of them.
C1_OneNotificationPerOutage ==
  \A n \in Names : streak[n] >= 1 => failNotes[n] = 1

\* C2: a successful fetch right after a failed cycle of a page with a
\* snapshot sends exactly one informational notification and no change
\* notification, and stores the new fingerprint and text.
C2_RecoveryAfterFailure ==
  [][\A n \in Names :
       (ChangeStep(n) /\ streak[n] >= 1 /\ IsSnapshot(files[n]) /\ cycle'.fetch.ok)
         => /\ Len(cycle'.notes) = 1
            /\ cycle'.notes[1].priority = 0
            /\ cycle'.notes[1].kind # "changed"
            /\ HoldsSnapshotOf(files'[n], n, cycle'.fetch.html)]_vars

\* C3: a check cycle whose fetch fails keeps the stored fingerprint and text
\* and sets the stored error flag.
C3_FailureKeepsSnapshotSetsFlag ==
  [][\A n \in Names :
       (ChangeStep(n) /\ IsSnapshot(files[n]) /\ ~cycle'.fetch.ok)
         => /\ IsSnapshot(files'[n])
            /\ files'[n].data.items.hash = files[n].data.items.hash
            /\ files'[n].data.items.text = files[n].data.items.text
            /\ ErrorFlagSet(files'[n])]_vars

(***************************************************************************)
(* First run, unchanged and urgent content.                                *)
(***************************************************************************)
\* C4 as stated: the first check with a successful fetch of a page without a
\* state file yields Bootstrapped, with one informational notification and
\* the state saved, for every fetched content.
C4_FirstCheckBootstraps ==
  [][\A n \in Names :
       (ChangeStep(n) /\ files[n] = Missing /\ cycle'.fetch.ok)
         => /\ cycle'.result = "Bootstrapped"
            /\ Len(cycle'.notes) = 1
            /\ cycle'.notes[1].kind = "started"
            /\ cycle'.notes[1].priority = 0
            /\ HoldsSnapshotOf(files'[n], n, cycle'.fetch.html)]_vars

\* C4 as amended: the first check with a successful fetch of a page without a
\* state file saves the state and sends one notification without a diff; it
\* yields Bootstrapped (informational notification) when the content lacks
\* the page's urgent phrase and UrgentMatch (maximum urgency) when it has it,
\* and never Changed or Unchanged.
C4_FirstCheckBootstrapsUnlessUrgent ==
  [][\A n \in Names :
       (ChangeStep(n) /\ files[n] = Missing /\ cycle'.fetch.ok)
         => /\ cycle'.result \notin {"Changed", "Unchanged"}
            /\ Len(cycle'.notes) = 1
            /\ cycle'.notes[1].diff = NoDiff
            /\ HoldsSnapshotOf(files'[n], n, cycle'.fetch.html)
            /\ IF HasUrgentPhrase(n, cycle'.fetch)
               THEN /\ cycle'.result = "UrgentMatch"
                    /\ cycle'.notes[1].priority = 2
               ELSE /\ cycle'.result = "Bootstrapped"
                    /\ cycle'.notes[1].kind = "started"
                    /\ cycle'.notes[1].priority = 0]_vars

\* the very first check of the first page found content without the urgent
\* phrase and bootstrapped
C4_Witness ==
  /\ cycle.name = Order[1]
  /\ last[Order[2]].result = "none"
  /\ cycle.fetch.ok
  /\ ~HasUrgentPhrase(cycle.name, cycle.fetch)
  /\ cycle.result = "Bootstrapped"
  /\ cycle.notes[1].priority = 0
  /\ HoldsSnapshotOf(files[cycle.name], cycle.name, cycle.fetch.html)

C6_UrgentAlwaysNotified ==
  [][\A n \in Names :
       (ChangeStep(n) /\ HasUrgentPhrase(n, cycle'.fetch))
         => /\ \E i \in 1..Len(cycle'.notes) : cycle'.notes[i].priority = 2
            /\ HoldsSnapshotOf(files'[n], n, cycle'.fetch.html)]_vars

(***************************************************************************)
(* Changed content, stored records, isolation, notifier failures.          *)
(***************************************************************************)
Smaller(a, b) == IF a <= b THEN a ELSE b

\* d is a summary of the difference of the two texts: up to ten words of
\* each set difference, or the mark of a structural change
IsDiffOf(d, old_text, new_text) ==
  LET added == WordSet(new_text) \ WordSet(old_text)
      removed == WordSet(old_text) \ WordSet(new_text)
  IN  /\ d.structure <=> (added = {} /\ removed = {})
      /\ d.added \subseteq added
      /\ d.removed \subseteq removed
      /\ Cardinality(d.added) = Smaller(Cardinality(added), 10)
      /\ Cardinality(d.removed) = Smaller(Cardinality(removed), 10)

\* C7: a successful fetch without the urgent phrase, of a page whose stored
\* snapshot has another fingerprint than the new content, yields Changed
\* with one elevated-urgency notification carrying the diff of the stored
\* text and the new text, and stores the new fingerprint and text.
C7_ChangedNotifiesAndSaves ==
  [][\A n \in Names :
       (ChangeStep(n) /\ cycle'.fetch.ok /\ ~HasUrgentPhrase(n, cycle'.fetch)
          /\ IsSnapshot(files[n])
          /\ Hashed[n][cycle'.fetch.html] # files[n].data.items.hash)
         => /\ cycle'.result = "Changed"
            /\ Len(cycle'.notes) = 1
            /\ cycle'.notes[1].kind = "changed"
            /\ cycle'.notes[1].priority = 1
            /\ IsDiffOf(cycle'.notes[1].diff, files[n].data.items.text,
                        Normalized[n][cycle'.fetch.html])
            /\ HoldsSnapshotOf(files'[n], n, cycle'.fetch.html)]_vars

\* a change was found, its notification lists added and removed words, and
\* the new snapshot is stored
C7_Witness ==
  /\ cycle.name \in Names
  /\ cycle.result = "Changed"
  /\ cycle.notes[1].priority = 1
  /\ cycle.notes[1].diff.added # {}
  /\ cycle.notes[1].diff.removed # {}
  /\ HoldsSnapshotOf(files[cycle.name], cycle.name, cycle.fetch.html)

\* the file holds something that is not a record of a fingerprint and a text
Malformed(file) ==
  \/ file.kind \in {"blank", "garbage"}
  \/ file.kind = "json" /\ file.data.type # "str" /\ ~IsSnapshot(file)

\* C8: a malformed stored record, unparseable or of the wrong shape, is
\* treated as absent: the next successful check behaves as a first run and
\* writes a well-formed snapshot.
C8_MalformedRecordIsAbsent ==
  [][\A n \in Names :
       (ChangeStep(n) /\ Malformed(files[n]) /\ cycle'.fetch.ok)
         => /\ cycle'.result \in {"Bootstrapped", "UrgentMatch"}
            /\ HoldsSnapshotOf(files'[n], n, cycle'.fetch.html)]_vars

\* C9: a change-mode invocation evaluates every page once, in the order of
\* the configuration; a check, failed or not, touches no other page's file
\* or history, and the invocation ends only after the last page.
C9_EveryPageCheckedInOrder ==
  [][/\ \A n \in Names :
          ChangeStep(n)
            => /\ n = Order[idx]
               /\ idx' = idx + 1
               /\ \A m \in Names \ {n} :
                     /\ files'[m] = files[m]
                     /\ last'[m] = last[m]
                     /\ streak'[m] = streak[m]
     /\ (mode = "change" /\ mode' = "idle") => checked = Order]_vars

\* the first page's fetch failed, the second page's check raised on its
\* stored record, and the third page was checked and completed
C9_Witness ==
  /\ mode = "change"
  /\ checked = Order
  /\ ~last[Order[1]].fetch.ok
  /\ last[Order[2]].fetch.ok
  /\ last[Order[2]].result = "Failed"
  /\ cycle.name = Order[3]
  /\ cycle.result \in {"Bootstrapped", "Changed", "Unchanged", "UrgentMatch"}

\* C10: a check cycle whose notification was not delivered (failed post,
\* timeout, no credentials) has the result and the stored snapshot of a
\* cycle whose notification was delivered: it fails only if its fetch
\* failed, never because of the notifier, and a successful fetch leaves the
\* snapshot of the fetched content in the file.
C10_NotifierNeverFailsTheCycle ==
  (mode = "change" /\ cycle.name \in Names
     /\ \E i \in 1..Len(cycle.notes) : ~cycle.notes[i].delivered)
    => /\ cycle.error # "notify"
       /\ cycle.result = "Failed" <=> ~cycle.fetch.ok
       /\ cycle.fetch.ok
            => HoldsSnapshotOf(files[cycle.name], cycle.name, cycle.fetch.html)

\* a change was found, the post of its notification failed, and the cycle
\* still ended as Changed with the new snapshot stored
C10_Witness ==
  /\ mode = "change"
  /\ cycle.name \in Names
  /\ cycle.result = "Changed"
  /\ cycle.notes[1].posted
  /\ ~cycle.notes[1].delivered
  /\ HoldsSnapshotOf(files[cycle.name], cycle.name, cycle.fetch.html)

(***************************************************************************)
(* Heartbeat.                                                              *)
(***************************************************************************)
\* the step belongs to a heartbeat invocation: an iteration or the summary
HeartbeatStep == mode = "heartbeat"

\* C11: the heartbeat neither reads nor writes a state file: every step of a
\* heartbeat invocation leaves every state file as it was, so the files after
\* the invocation are those before it, and no step of it yields Bootstrapped
\* or Changed or sends their notifications.
C11_HeartbeatLeavesSnapshots ==
  [][HeartbeatStep
       => /\ files' = files
          /\ cycle'.result \notin {"Bootstrapped", "Changed"}
          /\ \A i \in 1..Len(cycle'.notes) :
               cycle'.notes[i].kind \notin {"started", "changed"}]_vars

\* a heartbeat has run to its end after a change cycle stored a snapshot,
\* and the snapshot of that cycle's content is still in the file
C11_Witness ==
  /\ mode = "idle"
  /\ cycle.result = "summary"
  /\ Len(statuses) = Len(Order)
  /\ \E n \in Names :
       /\ last[n].fetch.ok
       /\ HoldsSnapshotOf(files[n], n, last[n].fetch.html)
       /\ statuses[1] = "OK"

\* the step is the heartbeat's iteration for page n
HeartbeatPageStep(n) == mode = "heartbeat" /\ checked' = Append(checked, n)

\* the step sent a notification of maximum urgency
Escalated(notes) == \E i \in 1..Len(notes) : notes[i].priority = 2

\* C12: the heartbeat escalates a page, with a notification of maximum
\* urgency, exactly when the fetch succeeded and the lowercased content
\* holds the urgent phrase configured for that page.
C12_HeartbeatEscalatesOwnPhrase ==
  [][\A n \in Names :
       HeartbeatPageStep(n)
         => (Escalated(cycle'.notes) <=> HasUrgentPhrase(n, cycle'.fetch))]_vars

\* C13: the heartbeat fetches every page, in order, and records exactly one
\* status per page: OK, urgent, or error; a failed fetch becomes the error
\* status of its page and nothing else, and the iteration goes on. The
\* invocation ends only after the last page, with one status per page, by
\* sending exactly one summary notification of low urgency, and every
\* started heartbeat reaches that end.
C13_HeartbeatCoversEveryPage ==
  /\ [][/\ \A n \in Names :
             HeartbeatPageStep(n)
               => /\ n = Order[idx]
                  /\ idx' = idx + 1
                  /\ mode' = "heartbeat"
                  /\ Len(statuses') = Len(statuses) + 1
                  /\ statuses'[Len(statuses')] \in {"OK", "OUVERT?", "Erreur"}
                  /\ statuses'[Len(statuses')] = "Erreur" <=> ~cycle'.fetch.ok
                  /\ ~cycle'.fetch.ok => cycle'.notes = <<>>
        /\ (HeartbeatStep /\ mode' # "heartbeat")
             => /\ checked = Order
                /\ Len(statuses) = Len(Order)
                /\ statuses' = statuses
                /\ Len(cycle'.notes) = 1
                /\ cycle'.notes[1].kind = "summary"
                /\ cycle'.notes[1].priority = -1]_vars
  /\ (mode = "heartbeat") ~> (mode = "idle" /\ cycle.result = "summary")

\* a heartbeat whose first fetch failed went on to the other pages, found
\* one of them quiet, and sent its summary
C13_Witness ==
  /\ mode = "idle"
  /\ cycle.result = "summary"
  /\ Len(statuses) = Len(Order)
  /\ statuses[1] = "Erreur"
  /\ statuses[2] = "OK"
  /\ cycle.notes[1].priority = -1

(***************************************************************************)
(* Stored records: legacy form, size, writes.                              *)
(***************************************************************************)
\* the file holds a bare JSON string
IsLegacy(file) == file.kind = "json" /\ file.data.type = "str"

\* C14 as stated: a record that is a bare fingerprint string s loads as the
\* fingerprint s with an empty text and no error flag; the next check with a
\* successful fetch yields Unchanged when the new fingerprint is s and
\* otherwise Changed with the diff against the empty text, never
\* Bootstrapped.
C14_LegacyRecordLoads ==
  [][\A n \in Names :
       (ChangeStep(n) /\ IsLegacy(files[n]) /\ cycle'.fetch.ok)
         => /\ load_previous_state(files[n])
                 = Dict([hash |-> files[n].data.s, text |-> <<>>])
            /\ IF Hashed[n][cycle'.fetch.html] = files[n].data.s
               THEN cycle'.result = "Unchanged" /\ cycle'.notes = <<>>
               ELSE /\ cycle'.result = "Changed"
                    /\ Len(cycle'.notes) = 1
                    /\ IsDiffOf(cycle'.notes[1].diff, <<>>,
                                Normalized[n][cycle'.fetch.html])]_vars

\* C14 as amended: a record that is a bare fingerprint string s loads as the
\* fingerprint s with an empty text and no error flag; the next check with a
\* successful fetch never yields Bootstrapped: content with the page's
\* urgent phrase yields UrgentMatch, other content yields Unchanged when its
\* fingerprint is s and otherwise Changed with the diff against the empty
\* text.
C14_LegacyRecordLoadsUnlessUrgent ==
  [][\A n \in Names :
       (ChangeStep(n) /\ IsLegacy(files[n]) /\ cycle'.fetch.ok)
         => /\ load_previous_state(files[n])
                 = Dict([hash |-> files[n].data.s, text |-> <<>>])
            /\ cycle'.result # "Bootstrapped"
            /\ IF HasUrgentPhrase(n, cycle'.fetch)
               THEN cycle'.result = "UrgentMatch"
               ELSE IF Hashed[n][cycle'.fetch.html] = files[n].data.s
               THEN cycle'.result = "Unchanged" /\ cycle'.notes = <<>>
               ELSE /\ cycle'.result = "Changed"
                    /\ Len(cycle'.notes) = 1
                    /\ cycle'.notes[1].diff.removed = {}
                    /\ IsDiffOf(cycle'.notes[1].diff, <<>>,
                                Normalized[n][cycle'.fetch.html])]_vars

\* the first check of the second page, whose file held a bare fingerprint
\* string, found other content and reported all of its words as added
C14_Witness ==
  /\ cycle.name = Order[2]
  /\ last[Order[3]].result = "none"
  /\ streak[Order[2]] = 0
  /\ failNotes[Order[2]] = 0
  /\ cycle.result = "Changed"
  /\ cycle.notes[1].diff.removed = {}
  /\ cycle.notes[1].diff.added = WordSet(Normalized[cycle.name][cycle.fetch.html])

\* C15: whatever cycles have run, the text of every stored snapshot has at
\* most 50,000 characters.
C15_StoredTextBounded ==
  \A n \in Names :
    IsSnapshot(files[n]) => TextLen(files[n].data.items.text) <= 50000

\* a page served more than 50,000 characters of stable content and the
\* snapshot of that cycle keeps exactly 50,000 of them
C15_Witness ==
  /\ mode = "change"
  /\ cycle.name \in Names
  /\ cycle.fetch.ok
  /\ cycle.result # "Failed"
  /\ TextLen(Normalized[cycle.name][cycle.fetch.html]) > 50000
  /\ IsSnapshot(files[cycle.name])
  /\ files[cycle.name].data.items.hash = Hashed[cycle.name][cycle.fetch.html]
  /\ TextLen(files[cycle.name].data.items.text) = 50000

\* the file holds what the check of this body writes when it saves
IsSavedFormOf(file, name, fetch) ==
  fetch.ok /\ HoldsSnapshotOf(file, name, fetch.html)

\* C16: a save replaces the stored record as a whole: after a check cycle,
\* also one whose save was interrupted, the file holds either the complete
\* record it held before or the complete new record, so that no load finds
\* a half-written record.
C16_SaveIsAtomic ==
  [][\A n \in Names :
       ChangeStep(n)
         => \/ files'[n] = files[n]
            \/ IsSavedFormOf(files'[n], n, cycle'.fetch)]_vars

(***************************************************************************)
(* Notifications of a cycle, lifetime of a snapshot, fingerprint kept.     *)
(***************************************************************************)
\* C17: every check cycle in change mode sends at most one notification,
\* whatever it fetched and whatever the file held, also when the write of
\* the state that follows the notification fails.
C17_AtMostOneNotification ==
  [][\A n \in Names : ChangeStep(n) => Len(cycle'.notes) <= 1]_vars

\* C18: starting without state files, a snapshot once written is never
\* removed: a file that holds a snapshot holds one after every step, and
\* every file that exists holds a snapshot whose fingerprint is a digest of
\* the fixed length of 32 hexadecimal digits, never empty.
C18_SnapshotStaysWithDigest ==
  [][\A n \in Names :
       /\ IsSnapshot(files[n]) => IsSnapshot(files'[n])
       /\ files'[n] # Missing
            => /\ IsSnapshot(files'[n])
               /\ Len(files'[n].data.items.hash) = 32
               /\ \A i \in 1..32 : files'[n].data.items.hash[i] \in 0..15]_vars

\* a page's snapshot was written, then a check of the page failed to fetch
\* and a heartbeat ran, and the snapshot with its digest is still there
C18_Witness ==
  /\ mode = "idle"
  /\ cycle.result = "summary"
  /\ \E n \in Names :
       /\ streak[n] >= 1
       /\ IsSnapshot(files[n])
       /\ Len(files[n].data.items.hash) = 32

\* the fingerprint the file keeps is h: that of its record, or the bare
\* string of a legacy file
KeepsFingerprint(file, h) ==
  \/ IsLegacy(file) /\ file.data.s = h
  \/ /\ file.kind = "json"
     /\ file.data.type = "dict"
     /\ "hash" \in DOMAIN file.data.items
     /\ file.data.items.hash = h

\* C19: after every check cycle in change mode whose fetch succeeded, the
\* stored fingerprint is the fingerprint of the normalized content just
\* fetched; so when the next check of the page fetches the same content,
\* without the urgent phrase, it sends no change notification: a single
\* change is notified exactly once.
C19_FingerprintFollowsFetch ==
  [][\A n \in Names :
       (ChangeStep(n) /\ cycle'.fetch.ok)
         => /\ KeepsFingerprint(files'[n], Hashed[n][cycle'.fetch.html])
            /\ (last[n].fetch = cycle'.fetch /\ ~HasUrgentPhrase(n, cycle'.fetch))
                 => Count(cycle'.notes, "changed") = 0]_vars

(***************************************************************************)
(* The diff summary.                                                       *)
(***************************************************************************)
\* the words of a text, whitespace-delimited, without regard to case
WordsOf(text) == {LowerWord(text[i].w) : i \in 1..Len(text)}

Listed(words) == {t.w : t \in words}

\* C20: the diff compares the two texts as sets of whitespace-delimited
\* words without regard to case; it lists at most 10 words that are in the
\* new text and not in the old one and at most 10 that are in the old text
\* and not in the new one, every listed word belongs to its difference, and
\* it is the structure mark exactly when both differences are empty.
C20_DiffListsWordDifferences ==
  call.done
    => LET added == WordsOf(call.new_text) \ WordsOf(call.old_text)
           removed == WordsOf(call.old_text) \ WordsOf(call.new_text)
       IN  /\ Cardinality(call.diff.added) <= 10
           /\ Cardinality(call.diff.removed) <= 10
           /\ Listed(call.diff.added) \subseteq added
           /\ Listed(call.diff.removed) \subseteq removed
           /\ call.diff.structure <=> (added = {} /\ removed = {})
           /\ call.diff.structure
                => (call.diff.added = {} /\ call.diff.removed = {})
           /\ call.diff \in find_differences(LowerText(call.old_text),
                                             LowerText(call.new_text))

\* the new text has more than 10 words the old text lacks and the old text
\* has words the new one lacks: 10 of the former are listed
C20_Witness ==
  /\ call.done
  /\ Cardinality(WordsOf(call.new_text) \ WordsOf(call.old_text)) > 10
  /\ Cardinality(call.diff.added) = 10
  /\ call.diff.removed # {}
  /\ ~call.diff.structure

====
